---- MODULE Spec2Model ----
(***************************************************************************)
(* Lab-equipment lending subsystem of robohub-academy.                     *)
(*                                                                         *)
(* The backend tables lab_components, lab_access_requests and              *)
(* lab_request_items are shared by several browser sessions:               *)
(*   - admin sessions running LabAccessManager (review, approve, reject,   *)
(*     mark returned),                                                     *)
(*   - an admin session running ComponentsManager (create, edit, delete    *)
(*     components),                                                        *)
(*   - a member session running LabRequestForm (submit a request) and the  *)
(*     LabAccess page (submit a reason),                                   *)
(*   - the MyRequests list of each user.                                   *)
(* Every awaited backend call of a handler is one step, so the reads and   *)
(* writes of different sessions interleave exactly where the code awaits.  *)
(***************************************************************************)
EXTENDS Integers, Sequences, FiniteSets

\* ------------------------------------------------------------------ bounds

NumComps == 1        \* component ids that can ever be created
MaxReqs == 2         \* request ids that can ever be created
NumSessions == 2     \* concurrent LabAccessManager sessions
MaxTotal == 2        \* largest total_quantity typed into the component dialog
MaxQty == 2          \* largest quantity typed into the request form
MaxDays == 1         \* return dates typed in are at most this many days from today

Comps == 1..NumComps
Reqs == 1..MaxReqs
Sessions == 1..NumSessions   \* session s is the browser session of user s
MemberUser == 1              \* the user signed in to the member session

\* ------------------------------------------------------------------ state

VARIABLES
  lab_components,       \* table: [Comps -> row], exists = FALSE when no such row
  compsCreated,         \* number of ids handed out by gen_random_uuid() so far
  lab_access_requests,  \* table: [Reqs -> row]
  lab_request_items,    \* table: [Reqs -> sequence of item rows of that request]
  backendFaults,        \* TRUE when backend calls may return an error
  requests,             \* LabAccessManager: the fetched list, per session
  selectedRequest,      \* LabAccessManager: request shown in the review dialog
  processing,           \* LabAccessManager: the processing flag
  pc,                   \* LabAccessManager: position of the running handler
  op,                   \* LabAccessManager: locals of the running handler
  fetching,             \* LabAccessManager: fetchRequests() in flight
  cm,                   \* ComponentsManager state (one session)
  form,                 \* LabRequestForm state (one member session)
  user_roles,           \* table: the users that have the role admin
  requestsOrder,        \* LabAccessManager: ids of the fetched list, in its order
  myRequests,           \* MyRequests: loading flag and fetched list, per user
  call,                 \* history: what the running handler call of a session met
  epoch,                \* history: the review calls running since the system was idle
  created,              \* history: the items createRequest was given, per request
  trip                  \* history: the approval that was the last operation on the stock

dbVars == <<lab_components, compsCreated, lab_access_requests, lab_request_items>>
sessionVars == <<requests, selectedRequest, processing, pc, op, fetching>>
readVars == <<user_roles, requestsOrder, myRequests>>
histVars == <<call, epoch, created, trip>>
vars == <<lab_components, compsCreated, lab_access_requests, lab_request_items,
          backendFaults, requests, selectedRequest, processing, pc, op,
          fetching, cm, form, user_roles, requestsOrder, myRequests, call, epoch,
          created, trip>>

\* ------------------------------------------------------------------ helpers

Max(a, b) == IF a >= b THEN a ELSE b
Min(a, b) == IF a <= b THEN a ELSE b

\* Outcomes of one backend call: it succeeds, or (faulty backend) returns an error.
Outcomes == IF backendFaults THEN {TRUE, FALSE} ELSE {TRUE}

NoComponent == [exists |-> FALSE, total_quantity |-> 0, available_quantity |-> 0]
NoRequestRow == [exists |-> FALSE, user_id |-> 0, created_at |-> 0,
                 status |-> "pending", items_returned |-> FALSE, reviewed_by |-> 0]
NoSelection == [id |-> 0, items |-> <<>>]
NotListed == [present |-> FALSE, status |-> "pending", items_returned |-> FALSE,
              items |-> <<>>]
NoComp == [found |-> FALSE, available_quantity |-> 0, total_quantity |-> 0]
IdleOp == [action |-> "none", id |-> 0, items |-> <<>>, i |-> 0, comp |-> NoComp]
NoCall == [status0 |-> "pending", returned0 |-> FALSE, short |-> FALSE]
NoEpoch == [base |-> [c \in Comps |-> 0], n |-> 0, dirty |-> FALSE, approved |-> {}]
NoTrip == [id |-> 0, base |-> [c \in Comps |-> 0]]

RECURSIVE SumQty(_, _)
\* Sum of the quantities of the items of a list that name component c.
SumQty(items, c) ==
  IF items = <<>> THEN 0
  ELSE (IF Head(items).component_id = c THEN Head(items).quantity ELSE 0)
       + SumQty(Tail(items), c)

RECURSIVE FilterItems(_, _)
\* The item rows that do not reference component c (ON DELETE CASCADE).
FilterItems(items, c) ==
  IF items = <<>> THEN <<>>
  ELSE IF Head(items).component_id = c THEN FilterItems(Tail(items), c)
       ELSE <<Head(items)>> \o FilterItems(Tail(items), c)

\* .select(...).eq('id', c).single(): the row, or null when there is none.
SelectComponent(c) ==
  IF lab_components[c].exists
  THEN [found |-> TRUE,
        available_quantity |-> lab_components[c].available_quantity,
        total_quantity |-> lab_components[c].total_quantity]
  ELSE NoComp

\* .update({available_quantity: v}).eq('id', c): no row, no effect.
UpdateAvailable(c, v) ==
  IF lab_components[c].exists
  THEN [lab_components EXCEPT ![c].available_quantity = v]
  ELSE lab_components

AvailableNow == [c \in Comps |-> lab_components[c].available_quantity]

\* created_at DEFAULT now() of a row inserted now: the time, counted in the
\* rows inserted so far.
Now == Cardinality({r \in Reqs : lab_access_requests[r].exists}) + 1

\* has_role(auth.uid(), 'admin') for the user u.
HasRole(u) == u \in user_roles

\* The SELECT policies of lab_access_requests: a row is visible to its owner
\* and to admins.
VisibleRequest(u, r) ==
  /\ lab_access_requests[r].exists
  /\ lab_access_requests[r].user_id = u \/ HasRole(u)

\* The SELECT policies of lab_request_items, for .eq('request_id', r): the rows
\* of a request are visible to the request's owner and to admins.
VisibleItems(u, r) ==
  IF lab_access_requests[r].exists
     /\ (lab_access_requests[r].user_id = u \/ HasRole(u))
  THEN lab_request_items[r]
  ELSE <<>>

RECURSIVE OrderByCreatedAtDesc(_)
\* .order('created_at', { ascending: false }) of the rows with ids in S.
OrderByCreatedAtDesc(S) ==
  IF S = {} THEN <<>>
  ELSE LET r == CHOOSE x \in S : \A y \in S :
                  lab_access_requests[x].created_at >= lab_access_requests[y].created_at
       IN <<r>> \o OrderByCreatedAtDesc(S \ {r})

\* ------------------------------------------------------------------ history

Busy(s) == pc[s] # "idle"
Quiescent == \A s \in Sessions : ~Busy(s)

\* A review call starts: when no other call is running it opens an epoch whose
\* base is the stock of that moment, otherwise it joins the running epoch. n
\* counts the calls of the epoch, up to 3.
EpochStart ==
  IF Quiescent
  THEN [base |-> AvailableNow, n |-> 1, dirty |-> FALSE, approved |-> {}]
  ELSE [epoch EXCEPT !.n = Min(3, epoch.n + 1)]

\* The review call of session s ends, having approved the requests in done: the
\* epoch ends with the last running call.
EpochEnd(s, done) ==
  IF \A t \in Sessions \ {s} : ~Busy(t)
  THEN NoEpoch
  ELSE [epoch EXCEPT !.approved = @ \cup done]

\* A write to lab_components from outside the review handlers.
EpochDirty == IF Quiescent THEN epoch ELSE [epoch EXCEPT !.dirty = TRUE]

\* What is stored for request r when a call on it starts.
CallStart(r) ==
  [status0 |-> lab_access_requests[r].status,
   returned0 |-> lab_access_requests[r].items_returned,
   short |-> FALSE]

\* The approve call of session s ends with its status update done or not (ok):
\* when it ran alone on a pending request, read for every item a stock that
\* covers the quantity and approved the request, it is remembered with the
\* stock it started on.
TripStart(s, ok) ==
  IF /\ ok /\ op[s].action = "approved"
     /\ call[s].status0 = "pending" /\ ~call[s].short
     /\ epoch.n = 1 /\ ~epoch.dirty
     /\ \A t \in Sessions \ {s} : ~Busy(t)
  THEN [id |-> op[s].id, base |-> epoch.base]
  ELSE NoTrip

\* A markReturned call on request r starts: the remembered approval stays when
\* it is the approval of r and nothing else is running.
TripReturn(r) == IF trip.id = r /\ Quiescent THEN trip ELSE NoTrip

\* The columns of the item rows that fetchRequests hands to the handlers.
RECURSIVE ListedItems(_)
ListedItems(rows) ==
  IF rows = <<>> THEN <<>>
  ELSE <<[id |-> Head(rows).id, component_id |-> Head(rows).component_id,
          quantity |-> Head(rows).quantity]>> \o ListedItems(Tail(rows))

\* ------------------------------------------------------------------ mounts

NoEditing == [id |-> 0, total_quantity |-> 0, available_quantity |-> 0]
NotShown == [present |-> FALSE, total_quantity |-> 0, available_quantity |-> 0]

\* ComponentsManager as mounted: useState defaults, fetchComponents() running.
CmMounted ==
  [components |-> [c \in Comps |-> NotShown], editingComponent |-> NoEditing,
   dialogOpen |-> FALSE, loading |-> TRUE]

\* LabRequestForm as mounted: useState defaults, fetchComponents() running.
\* components[c] is the listed available_quantity, 0 when c is not listed.
\* returnDate is <<>> for the empty string and <<d>> for the day d days after
\* today (before today when d < 0).
FormMounted ==
  [components |-> [c \in Comps |-> 0], selectedComponents |-> <<>>,
   returnDate |-> <<>>, stage |-> "idle", requestId |-> 0, loading |-> TRUE]

\* MyRequests as mounted: useState defaults, fetchRequests() running.
MyRequestsMounted == [loading |-> TRUE, rows |-> <<>>]

\* The users and their pages before anything has been fetched: every user that
\* has a LabAccessManager session is an admin.
InitRead ==
  /\ user_roles = Sessions
  /\ requestsOrder = [s \in Sessions |-> <<>>]
  /\ myRequests = [u \in Sessions |-> MyRequestsMounted]

\* ------------------------------------------------------------------ Init

Init ==
  /\ lab_components = [c \in Comps |-> NoComponent]
  /\ compsCreated = 0
  /\ lab_access_requests = [r \in Reqs |-> NoRequestRow]
  /\ lab_request_items = [r \in Reqs |-> <<>>]
  /\ backendFaults \in BOOLEAN
  /\ requests = [s \in Sessions |-> [r \in Reqs |-> NotListed]]
  /\ selectedRequest = [s \in Sessions |-> NoSelection]
  /\ processing = [s \in Sessions |-> FALSE]
  /\ pc = [s \in Sessions |-> "idle"]
  /\ op = [s \in Sessions |-> IdleOp]
  /\ fetching = [s \in Sessions |-> TRUE]
  /\ cm = CmMounted
  /\ form = FormMounted
  /\ InitRead
  /\ call = [s \in Sessions |-> NoCall]
  /\ epoch = NoEpoch
  /\ created = [r \in Reqs |-> <<>>]
  /\ trip = NoTrip

\* ------------------------------------------------------------------ LabAccessManager

\* fetchRequests, as user s: the rows of lab_access_requests the policies show,
\* newest first, with their items, then setRequests(requestsWithData). The handlers call it without await, so the
\* list on screen stays as it was until this step is taken.
FetchRequests(s) ==
  /\ fetching[s]
  /\ requests' = [requests EXCEPT ![s] =
       [r \in Reqs |->
         IF VisibleRequest(s, r)
         THEN [present |-> TRUE,
               status |-> lab_access_requests[r].status,
               items_returned |-> lab_access_requests[r].items_returned,
               items |-> ListedItems(VisibleItems(s, r))]
         ELSE NotListed]]
  /\ requestsOrder' = [requestsOrder EXCEPT ![s] =
       OrderByCreatedAtDesc({r \in Reqs : VisibleRequest(s, r)})]
  /\ fetching' = [fetching EXCEPT ![s] = FALSE]
  /\ UNCHANGED <<dbVars, backendFaults, user_roles, myRequests, selectedRequest,
                 processing, pc, op, cm, form, histVars>>

\* The Review button of a row listed as pending: setSelectedRequest(request).
\* The review dialog is modal, so the table is reachable only while it is closed.
SetSelectedRequest(s, r) ==
  /\ selectedRequest[s].id = 0
  /\ requests[s][r].present
  /\ requests[s][r].status = "pending"
  /\ selectedRequest' = [selectedRequest EXCEPT ![s] =
       [id |-> r, items |-> requests[s][r].items]]
  /\ UNCHANGED <<dbVars, backendFaults, readVars, requests, processing, pc, op, fetching, cm,
                 form, histVars>>

\* onOpenChange(false) of the review dialog: setSelectedRequest(null).
CloseDialog(s) ==
  /\ selectedRequest[s].id # 0
  /\ selectedRequest' = [selectedRequest EXCEPT ![s] = NoSelection]
  /\ UNCHANGED <<dbVars, backendFaults, readVars, requests, processing, pc, op, fetching, cm,
                 form, histVars>>

\* Where a handler goes after item i of its loop.
AfterItem(s, loop, after) ==
  IF op[s].i < Len(op[s].items)
  THEN /\ op' = [op EXCEPT ![s].i = @ + 1, ![s].comp = NoComp]
       /\ pc' = [pc EXCEPT ![s] = loop]
  ELSE /\ op' = [op EXCEPT ![s].comp = NoComp]
       /\ pc' = [pc EXCEPT ![s] = after]

\* A handleAction that ran the item loop whatever the action: what a reject must
\* not do.
HandleActionLooping(s, action) ==
  /\ selectedRequest[s].id # 0
  /\ ~processing[s]
  /\ processing' = [processing EXCEPT ![s] = TRUE]
  /\ op' = [op EXCEPT ![s] =
       [action |-> action, id |-> selectedRequest[s].id,
        items |-> selectedRequest[s].items, i |-> 1, comp |-> NoComp]]
  /\ pc' = [pc EXCEPT ![s] =
       IF selectedRequest[s].items # <<>>
       THEN "approve_select" ELSE "status_update"]
  /\ call' = [call EXCEPT ![s] = CallStart(selectedRequest[s].id)]
  /\ epoch' = EpochStart
  /\ trip' = NoTrip
  /\ UNCHANGED <<dbVars, backendFaults, readVars, requests, selectedRequest, fetching, cm,
                 form, created>>

\* handleAction(action), up to its first await. Approve and Reject are disabled
\* while processing.
HandleAction(s, action) ==
  /\ selectedRequest[s].id # 0
  /\ ~processing[s]
  /\ processing' = [processing EXCEPT ![s] = TRUE]
  /\ op' = [op EXCEPT ![s] =
       [action |-> action, id |-> selectedRequest[s].id,
        items |-> selectedRequest[s].items, i |-> 1, comp |-> NoComp]]
  /\ pc' = [pc EXCEPT ![s] =
       IF action = "approved" /\ selectedRequest[s].items # <<>>
       THEN "approve_select" ELSE "status_update"]
  /\ call' = [call EXCEPT ![s] = CallStart(selectedRequest[s].id)]
  /\ epoch' = EpochStart
  /\ trip' = NoTrip
  /\ UNCHANGED <<dbVars, backendFaults, readVars, requests, selectedRequest, fetching, cm,
                 form, created>>

\* handleAction: select available_quantity of the component of item i.
ApproveSelect(s) ==
  /\ pc[s] = "approve_select"
  /\ \E ok \in Outcomes :
       LET item == op[s].items[op[s].i]
           comp == IF ok THEN SelectComponent(item.component_id) ELSE NoComp
       IN /\ IF comp.found
             THEN /\ op' = [op EXCEPT ![s].comp = comp]
                  /\ pc' = [pc EXCEPT ![s] = "approve_update"]
             ELSE AfterItem(s, "approve_select", "status_update")
          /\ call' = [call EXCEPT ![s].short =
               @ \/ (comp.found /\ item.quantity > comp.available_quantity)]
  /\ UNCHANGED <<dbVars, backendFaults, readVars, requests, selectedRequest, processing,
                 fetching, cm, form, epoch, created, trip>>

\* The value handleAction writes for an item of quantity q after reading avail.
ApprovedQuantity(avail, q) == Max(0, avail - q)

\* handleAction: update available_quantity of the component of item i.
ApproveUpdate(s) ==
  /\ pc[s] = "approve_update"
  /\ \E ok \in Outcomes :
       LET item == op[s].items[op[s].i]
       IN lab_components' =
            IF ok
            THEN UpdateAvailable(item.component_id,
                   ApprovedQuantity(op[s].comp.available_quantity, item.quantity))
            ELSE lab_components
  /\ AfterItem(s, "approve_select", "status_update")
  /\ UNCHANGED <<compsCreated, lab_access_requests, lab_request_items,
                 backendFaults, readVars, requests, selectedRequest, processing, fetching, cm,
                 form, histVars>>

\* A handleAction that returned on the error of its status update without
\* setProcessing(false).
StatusUpdateReturning(s) ==
  /\ pc[s] = "status_update"
  /\ \E ok \in Outcomes :
       IF ok
       THEN /\ lab_access_requests' = [lab_access_requests EXCEPT
                 ![op[s].id].status = op[s].action,
                 ![op[s].id].reviewed_by = s]
            /\ selectedRequest' = [selectedRequest EXCEPT ![s] = NoSelection]
            /\ fetching' = [fetching EXCEPT ![s] = TRUE]
            /\ epoch' = EpochEnd(s, IF op[s].action = "approved"
                                    THEN {op[s].id} ELSE {})
            /\ trip' = TripStart(s, TRUE)
            /\ processing' = [processing EXCEPT ![s] = FALSE]
       ELSE /\ epoch' = EpochEnd(s, {})
            /\ trip' = TripStart(s, FALSE)
            /\ UNCHANGED <<lab_access_requests, selectedRequest, fetching,
                           processing>>
  /\ pc' = [pc EXCEPT ![s] = "idle"]
  /\ op' = [op EXCEPT ![s] = IdleOp]
  /\ call' = [call EXCEPT ![s] = NoCall]
  /\ UNCHANGED <<lab_components, compsCreated, lab_request_items, backendFaults, readVars,
                 requests, cm, form, created>>

\* handleAction: update status, admin_notes, reviewed_by, reviewed_at of the row
\* with the selected id, then the toast, the reset and setProcessing(false).
StatusUpdate(s) ==
  /\ pc[s] = "status_update"
  /\ \E ok \in Outcomes :
       IF ok
       THEN /\ lab_access_requests' = [lab_access_requests EXCEPT
                 ![op[s].id].status = op[s].action,
                 ![op[s].id].reviewed_by = s]
            /\ selectedRequest' = [selectedRequest EXCEPT ![s] = NoSelection]
            /\ fetching' = [fetching EXCEPT ![s] = TRUE]
            /\ epoch' = EpochEnd(s, IF op[s].action = "approved"
                                    THEN {op[s].id} ELSE {})
            /\ trip' = TripStart(s, TRUE)
       ELSE /\ epoch' = EpochEnd(s, {})
            /\ trip' = TripStart(s, FALSE)
            /\ UNCHANGED <<lab_access_requests, selectedRequest, fetching>>
  /\ processing' = [processing EXCEPT ![s] = FALSE]
  /\ pc' = [pc EXCEPT ![s] = "idle"]
  /\ op' = [op EXCEPT ![s] = IdleOp]
  /\ call' = [call EXCEPT ![s] = NoCall]
  /\ UNCHANGED <<lab_components, compsCreated, lab_request_items, backendFaults, readVars,
                 requests, cm, form, created>>

\* A Return button that stayed enabled while processing.
HandleMarkReturnedEnabled(s, r) ==
  /\ selectedRequest[s].id = 0
  /\ requests[s][r].present
  /\ requests[s][r].status = "approved"
  /\ ~requests[s][r].items_returned
  /\ processing' = [processing EXCEPT ![s] = TRUE]
  /\ op' = [op EXCEPT ![s] =
       [action |-> "returned", id |-> r, items |-> requests[s][r].items,
        i |-> 1, comp |-> NoComp]]
  /\ pc' = [pc EXCEPT ![s] =
       IF requests[s][r].items # <<>> THEN "return_select" ELSE "return_request"]
  /\ call' = [call EXCEPT ![s] = CallStart(r)]
  /\ epoch' = EpochStart
  /\ trip' = TripReturn(r)
  /\ UNCHANGED <<dbVars, backendFaults, readVars, requests, selectedRequest, fetching, cm,
                 form, created>>

\* handleMarkReturned(request), up to its first await: the Return button of a row
\* listed as approved and not returned, disabled while processing.
HandleMarkReturned(s, r) ==
  /\ selectedRequest[s].id = 0
  /\ ~processing[s]
  /\ requests[s][r].present
  /\ requests[s][r].status = "approved"
  /\ ~requests[s][r].items_returned
  /\ processing' = [processing EXCEPT ![s] = TRUE]
  /\ op' = [op EXCEPT ![s] =
       [action |-> "returned", id |-> r, items |-> requests[s][r].items,
        i |-> 1, comp |-> NoComp]]
  /\ pc' = [pc EXCEPT ![s] =
       IF requests[s][r].items # <<>> THEN "return_select" ELSE "return_request"]
  /\ call' = [call EXCEPT ![s] = CallStart(r)]
  /\ epoch' = EpochStart
  /\ trip' = TripReturn(r)
  /\ UNCHANGED <<dbVars, backendFaults, readVars, requests, selectedRequest, fetching, cm,
                 form, created>>

\* handleMarkReturned: select available_quantity, total_quantity of item i.
ReturnSelect(s) ==
  /\ pc[s] = "return_select"
  /\ \E ok \in Outcomes :
       LET item == op[s].items[op[s].i]
           comp == IF ok THEN SelectComponent(item.component_id) ELSE NoComp
       IN /\ op' = [op EXCEPT ![s].comp = comp]
          /\ pc' = [pc EXCEPT ![s] =
               IF comp.found THEN "return_update" ELSE "return_item"]
  /\ UNCHANGED <<dbVars, backendFaults, readVars, requests, selectedRequest, processing,
                 fetching, cm, form, histVars>>

\* A return that added the quantity without looking at total_quantity.
ReturnedQuantityUnclamped(total, avail, q) == avail + q

\* A return that put the component back to full stock.
ReturnedQuantityFull(total, avail, q) == total

\* The value handleMarkReturned writes for an item of quantity q.
ReturnedQuantity(total, avail, q) == Min(total, avail + q)

\* handleMarkReturned: update available_quantity of the component of item i.
ReturnUpdate(s) ==
  /\ pc[s] = "return_update"
  /\ \E ok \in Outcomes :
       LET item == op[s].items[op[s].i]
       IN lab_components' =
            IF ok
            THEN UpdateAvailable(item.component_id,
                   ReturnedQuantity(op[s].comp.total_quantity,
                                    op[s].comp.available_quantity, item.quantity))
            ELSE lab_components
  /\ pc' = [pc EXCEPT ![s] = "return_item"]
  /\ UNCHANGED <<compsCreated, lab_access_requests, lab_request_items,
                 backendFaults, readVars, requests, selectedRequest, processing, op, fetching,
                 cm, form, histVars>>

\* .update({is_returned: true, ...}).eq('id', item.id) on lab_request_items.
MarkItemReturned(rows, id) ==
  [k \in 1..Len(rows) |->
    IF rows[k].id = id THEN [rows[k] EXCEPT !.is_returned = TRUE] ELSE rows[k]]

\* handleMarkReturned: mark item i as returned.
ReturnItem(s) ==
  /\ pc[s] = "return_item"
  /\ \E ok \in Outcomes :
       lab_request_items' =
         IF ok
         THEN [lab_request_items EXCEPT ![op[s].id] =
                 MarkItemReturned(@, op[s].items[op[s].i].id)]
         ELSE lab_request_items
  /\ AfterItem(s, "return_select", "return_request")
  /\ UNCHANGED <<lab_components, compsCreated, lab_access_requests, backendFaults, readVars,
                 requests, selectedRequest, processing, fetching, cm, form,
                 histVars>>

\* handleMarkReturned: update items_returned, returned_at of the row with the
\* request's id, then the toast and setProcessing(false).
ReturnRequest(s) ==
  /\ pc[s] = "return_request"
  /\ \E ok \in Outcomes :
       IF ok
       THEN /\ lab_access_requests' = [lab_access_requests EXCEPT
                 ![op[s].id].items_returned = TRUE]
            /\ fetching' = [fetching EXCEPT ![s] = TRUE]
       ELSE UNCHANGED <<lab_access_requests, fetching>>
  /\ epoch' = EpochEnd(s, {})
  /\ trip' = NoTrip
  /\ processing' = [processing EXCEPT ![s] = FALSE]
  /\ pc' = [pc EXCEPT ![s] = "idle"]
  /\ op' = [op EXCEPT ![s] = IdleOp]
  /\ call' = [call EXCEPT ![s] = NoCall]
  /\ UNCHANGED <<lab_components, compsCreated, lab_request_items, backendFaults, readVars,
                 requests, selectedRequest, cm, form, created>>

\* ------------------------------------------------------------------ ComponentsManager

\* parseInt(e.target.value) || 1 of the quantity inputs: 0 and NaN become 1.
ParseIntOr1(v) == IF v = 0 THEN 1 ELSE v

\* What can be typed into the Total Quantity input (a number input takes a sign).
TypedTotals == (0 - 1)..MaxTotal

\* useEffect on mount (the Components tab is opened): state reset, fetch started.
CmMount ==
  /\ cm' = CmMounted
  /\ UNCHANGED <<dbVars, backendFaults, readVars, sessionVars, form, histVars>>

\* fetchComponents: select * from lab_components, setComponents(data).
CmFetchComponents ==
  /\ cm.loading
  /\ \E ok \in Outcomes :
       cm' = [cm EXCEPT
         !.loading = FALSE,
         !.components =
            IF ok
            THEN [c \in Comps |->
                   IF lab_components[c].exists
                   THEN [present |-> TRUE,
                         total_quantity |-> lab_components[c].total_quantity,
                         available_quantity |-> lab_components[c].available_quantity]
                   ELSE NotShown]
            ELSE @]
  /\ UNCHANGED <<dbVars, backendFaults, readVars, sessionVars, form, histVars>>

\* The Add Component button: onOpenChange(true). The dialog shows the form as
\* the last close left it.
OpenAddDialog ==
  /\ ~cm.dialogOpen
  /\ cm' = [cm EXCEPT !.dialogOpen = TRUE]
  /\ UNCHANGED <<dbVars, backendFaults, readVars, sessionVars, form, histVars>>

\* openEditDialog(component) on a listed row.
OpenEditDialog(c) ==
  /\ ~cm.dialogOpen
  /\ cm.components[c].present
  /\ cm' = [cm EXCEPT
       !.editingComponent = [id |-> c,
                             total_quantity |-> cm.components[c].total_quantity,
                             available_quantity |-> cm.components[c].available_quantity],
       !.dialogOpen = TRUE]
  /\ UNCHANGED <<dbVars, backendFaults, readVars, sessionVars, form, histVars>>

\* totalQuantity when Save is pressed: what the dialog opened with (shown), or
\* what was typed last.
TotalQuantities(shown) == {shown} \cup {ParseIntOr1(v) : v \in TypedTotals}

\* The Cancel button: setDialogOpen(false), the form is left as it is.
CancelComponentDialog ==
  /\ cm.dialogOpen
  /\ cm' = [cm EXCEPT !.dialogOpen = FALSE]
  /\ UNCHANGED <<dbVars, backendFaults, readVars, sessionVars, form, histVars>>

\* Dismissing the dialog, onOpenChange(false): setDialogOpen(false); resetForm().
CloseComponentDialog ==
  /\ cm.dialogOpen
  /\ cm' = [cm EXCEPT !.dialogOpen = FALSE, !.editingComponent = NoEditing]
  /\ UNCHANGED <<dbVars, backendFaults, readVars, sessionVars, form, histVars>>

\* The available_quantity handleSave writes when it edits a component.
EditedAvailable(editing, total) ==
  Max(0, editing.available_quantity + (total - editing.total_quantity))

\* After a successful save or delete: dialog closed, form reset, fetchComponents().
CmSaved == [cm EXCEPT !.dialogOpen = FALSE, !.editingComponent = NoEditing,
                      !.loading = TRUE]

\* handleSave with a non-empty name, edit branch: one update of the row.
HandleSaveEdit ==
  /\ cm.dialogOpen
  /\ cm.editingComponent.id # 0
  /\ \E ok \in Outcomes,
        totalQuantity \in TotalQuantities(cm.editingComponent.total_quantity) :
       LET c == cm.editingComponent.id
       IN IF ok
          THEN /\ lab_components' =
                    IF lab_components[c].exists
                    THEN [lab_components EXCEPT
                            ![c].total_quantity = totalQuantity,
                            ![c].available_quantity =
                               EditedAvailable(cm.editingComponent, totalQuantity)]
                    ELSE lab_components
               /\ cm' = CmSaved
               /\ epoch' = EpochDirty
               /\ trip' = NoTrip
          ELSE UNCHANGED <<lab_components, cm, epoch, trip>>
  /\ UNCHANGED <<compsCreated, lab_access_requests, lab_request_items,
                 backendFaults, readVars, sessionVars, form, call, created>>

\* handleSave with a non-empty name, create branch: one insert.
HandleSaveCreate ==
  /\ cm.dialogOpen
  /\ cm.editingComponent.id = 0
  /\ compsCreated < NumComps
  /\ \E ok \in Outcomes, totalQuantity \in TotalQuantities(1) :
       IF ok
       THEN /\ lab_components' = [lab_components EXCEPT ![compsCreated + 1] =
                 [exists |-> TRUE, total_quantity |-> totalQuantity,
                  available_quantity |-> totalQuantity]]
            /\ compsCreated' = compsCreated + 1
            /\ cm' = CmSaved
       ELSE UNCHANGED <<lab_components, compsCreated, cm>>
  /\ UNCHANGED <<lab_access_requests, lab_request_items, backendFaults, readVars,
                 sessionVars, form, histVars>>

\* A delete that left the item rows of the component behind.
HandleDeleteOrphaning(c) ==
  /\ ~cm.dialogOpen
  /\ cm.components[c].present
  /\ \E ok \in Outcomes :
       IF ok
       THEN /\ lab_components' = [lab_components EXCEPT ![c] = NoComponent]
            /\ cm' = [cm EXCEPT !.loading = TRUE]
            /\ epoch' = EpochDirty
            /\ trip' = NoTrip
       ELSE UNCHANGED <<lab_components, cm, epoch, trip>>
  /\ UNCHANGED <<compsCreated, lab_access_requests, lab_request_items,
                 backendFaults, readVars, sessionVars, form, call, created>>

\* handleDelete(id), confirmed: the row goes, and with it (ON DELETE CASCADE)
\* every lab_request_items row that references it.
HandleDelete(c) ==
  /\ ~cm.dialogOpen
  /\ cm.components[c].present
  /\ \E ok \in Outcomes :
       IF ok
       THEN /\ lab_components' = [lab_components EXCEPT ![c] = NoComponent]
            /\ lab_request_items' =
                 [r \in Reqs |-> FilterItems(lab_request_items[r], c)]
            /\ cm' = [cm EXCEPT !.loading = TRUE]
            /\ epoch' = EpochDirty
            /\ trip' = NoTrip
       ELSE UNCHANGED <<lab_components, lab_request_items, cm, epoch, trip>>
  /\ UNCHANGED <<compsCreated, lab_access_requests, backendFaults, readVars, sessionVars,
                 form, call, created>>

\* ------------------------------------------------------------------ LabRequestForm

\* What can be typed into a Qty input (a number input takes a sign).
TypedQuantities == (0 - 1)..MaxQty

Selected(c) ==
  \E k \in 1..Len(form.selectedComponents) :
     form.selectedComponents[k].component_id = c

\* useEffect on mount: state reset, fetchComponents() started.
FormMount ==
  /\ form.stage = "idle"
  /\ form' = FormMounted
  /\ UNCHANGED <<dbVars, backendFaults, readVars, sessionVars, cm, histVars>>

\* fetchComponents: the components with available_quantity > 0.
FormFetchComponents ==
  /\ form.loading
  /\ \E ok \in Outcomes :
       form' = [form EXCEPT
         !.loading = FALSE,
         !.components =
            IF ok
            THEN [c \in Comps |->
                   IF lab_components[c].exists
                      /\ lab_components[c].available_quantity > 0
                   THEN lab_components[c].available_quantity ELSE 0]
            ELSE @]
  /\ UNCHANGED <<dbVars, backendFaults, readVars, sessionVars, cm, histVars>>

\* handleAddComponent(componentId) for a listed component not yet selected.
HandleAddComponent(c) ==
  /\ ~form.loading
  /\ form.stage = "idle"
  /\ form.components[c] > 0
  /\ ~Selected(c)
  /\ form' = [form EXCEPT !.selectedComponents =
       Append(@, [component_id |-> c, quantity |-> 1,
                  max_quantity |-> form.components[c]])]
  /\ UNCHANGED <<dbVars, backendFaults, readVars, sessionVars, cm, histVars>>

RECURSIVE RemoveSelected(_, _)
RemoveSelected(sel, c) ==
  IF sel = <<>> THEN <<>>
  ELSE IF Head(sel).component_id = c THEN RemoveSelected(Tail(sel), c)
       ELSE <<Head(sel)>> \o RemoveSelected(Tail(sel), c)

\* handleRemoveComponent(componentId).
HandleRemoveComponent(c) ==
  /\ form.stage = "idle"
  /\ Selected(c)
  /\ form' = [form EXCEPT !.selectedComponents = RemoveSelected(@, c)]
  /\ UNCHANGED <<dbVars, backendFaults, readVars, sessionVars, cm, histVars>>

\* A clamp that forgot the upper end.
ClampQuantityFromBelow(quantity, max_quantity) == Max(1, quantity)

\* Math.min(Math.max(1, quantity), sc.max_quantity)
ClampQuantity(quantity, max_quantity) == Min(Max(1, quantity), max_quantity)

\* handleQuantityChange(componentId, parseInt(value) || 1).
HandleQuantityChange(c, v) ==
  /\ form.stage = "idle"
  /\ Selected(c)
  /\ LET sel == form.selectedComponents
     IN form' = [form EXCEPT !.selectedComponents =
          [k \in 1..Len(sel) |->
            IF sel[k].component_id = c
            THEN [sel[k] EXCEPT !.quantity =
                    ClampQuantity(ParseIntOr1(v), sel[k].max_quantity)]
            ELSE sel[k]]]
  /\ UNCHANGED <<dbVars, backendFaults, readVars, sessionVars, cm, histVars>>

\* The rows handleSubmit inserts into lab_request_items.
ItemRows(sel) ==
  [k \in 1..Len(sel) |->
    [id |-> k, component_id |-> sel[k].component_id,
     quantity |-> sel[k].quantity, is_returned |-> FALSE]]

ExistingRequests == {r \in Reqs : lab_access_requests[r].exists}

\* What the Return Date input can hold when Submit is pressed: nothing, or a
\* date. The input's min attribute guides the date picker; a date typed on the
\* keyboard is taken as it is.
TypedDates == {<<>>} \cup {<<d>> : d \in (0 - MaxDays)..MaxDays}

\* handleSubmit with a purpose chosen, up to the insert into
\* lab_access_requests (status defaults to pending). It returns at once when
\* returnDate is empty.
SubmitRequest ==
  /\ form.stage = "idle"
  /\ form.selectedComponents # <<>>
  /\ Cardinality(ExistingRequests) < MaxReqs
  /\ \E ok \in Outcomes, returnDate \in TypedDates :
       LET r == Cardinality(ExistingRequests) + 1
       IN IF ok /\ returnDate # <<>>
          THEN /\ lab_access_requests' = [lab_access_requests EXCEPT ![r] =
                    [exists |-> TRUE, user_id |-> MemberUser, created_at |-> Now,
                     status |-> "pending", items_returned |-> FALSE,
                     reviewed_by |-> 0]]
               /\ form' = [form EXCEPT !.stage = "items", !.requestId = r,
                                       !.returnDate = returnDate]
               /\ created' = [created EXCEPT ![r] =
                    ListedItems(ItemRows(form.selectedComponents))]
          ELSE UNCHANGED <<lab_access_requests, form, created>>
  /\ UNCHANGED <<lab_components, compsCreated, lab_request_items, backendFaults, readVars,
                 sessionVars, cm, call, epoch, trip>>

\* A handleSubmit that reserved the stock when the items are stored: what the
\* submission must not do.
SubmitItemsReserving ==
  /\ form.stage = "items"
  /\ LET rows == ItemRows(form.selectedComponents)
     IN /\ lab_request_items' = [lab_request_items EXCEPT ![form.requestId] = rows]
        /\ lab_components' = [c \in Comps |->
             IF lab_components[c].exists
             THEN [lab_components[c] EXCEPT !.available_quantity =
                     Max(0, @ - SumQty(rows, c))]
             ELSE lab_components[c]]
  /\ form' = [form EXCEPT !.selectedComponents = <<>>, !.returnDate = <<>>,
                          !.stage = "idle", !.requestId = 0]
  /\ UNCHANGED <<compsCreated, lab_access_requests, backendFaults, readVars, sessionVars,
                 cm, histVars>>

\* handleSubmit: the insert of all items in one statement (it fails as a whole,
\* also when a referenced component is gone), then the form reset.
SubmitItems ==
  /\ form.stage = "items"
  /\ \E ok \in Outcomes :
       LET rows == ItemRows(form.selectedComponents)
           fk == \A k \in 1..Len(rows) : lab_components[rows[k].component_id].exists
       IN IF ok /\ fk
          THEN lab_request_items' =
                 [lab_request_items EXCEPT ![form.requestId] = rows]
          ELSE UNCHANGED lab_request_items
  /\ form' = [form EXCEPT !.selectedComponents = <<>>, !.returnDate = <<>>,
                          !.stage = "idle", !.requestId = 0]
  /\ UNCHANGED <<lab_components, compsCreated, lab_access_requests, backendFaults, readVars,
                 sessionVars, cm, histVars>>

\* ------------------------------------------------------------------ LabAccess page

\* handleSubmit of the LabAccess page of user u, with a reason typed in: one
\* insert into lab_access_requests of user_id and reason, and no items.
LabAccessHandleSubmit(u) ==
  /\ Cardinality(ExistingRequests) < MaxReqs
  /\ \E ok \in Outcomes :
       LET r == Cardinality(ExistingRequests) + 1
       IN IF ok
          THEN lab_access_requests' = [lab_access_requests EXCEPT ![r] =
                 [exists |-> TRUE, user_id |-> u, created_at |-> Now,
                  status |-> "pending", items_returned |-> FALSE,
                  reviewed_by |-> 0]]
          ELSE UNCHANGED lab_access_requests
  /\ UNCHANGED <<lab_components, compsCreated, lab_request_items, backendFaults, readVars,
                 sessionVars, cm, form, histVars>>

\* ------------------------------------------------------------------ MyRequests

\* useEffect on mount of the MyRequests list of user u: fetchRequests() started.
MyRequestsMount(u) ==
  /\ ~myRequests[u].loading
  /\ myRequests' = [myRequests EXCEPT ![u] = MyRequestsMounted]
  /\ UNCHANGED <<dbVars, backendFaults, user_roles, requestsOrder, sessionVars, cm,
                 form, histVars>>

\* A query that left the selection to the policies.
MyRequestsSelectVisible(u) == {r \in Reqs : VisibleRequest(u, r)}

\* select * from lab_access_requests .eq('user_id', user.id), as user u.
MyRequestsSelect(u) ==
  {r \in Reqs : VisibleRequest(u, r) /\ lab_access_requests[r].user_id = u}

\* The list MyRequests.fetchRequests builds for user u: the selected requests,
\* newest first, each with the items selected for it.
MyRequestsRows(u) ==
  LET ids == OrderByCreatedAtDesc(MyRequestsSelect(u))
  IN [k \in 1..Len(ids) |->
       [id |-> ids[k], user_id |-> lab_access_requests[ids[k]].user_id,
        items |-> VisibleItems(u, ids[k])]]

\* MyRequests.fetchRequests of user u: setRequests(requestsWithItems) unless the
\* query failed, then setLoading(false).
MyRequestsFetch(u) ==
  /\ myRequests[u].loading
  /\ \E ok \in Outcomes :
       myRequests' = [myRequests EXCEPT ![u] =
         [loading |-> FALSE, rows |-> IF ok THEN MyRequestsRows(u) ELSE @.rows]]
  /\ UNCHANGED <<dbVars, backendFaults, user_roles, requestsOrder, sessionVars, cm,
                 form, histVars>>

\* ------------------------------------------------------------------ specification

\* The steps of the LabAccessManager session s.
Review(s) ==
  \/ FetchRequests(s)
  \/ \E r \in Reqs : SetSelectedRequest(s, r)
  \/ CloseDialog(s)
  \/ \E a \in {"approved", "rejected"} : HandleAction(s, a)
  \/ ApproveSelect(s)
  \/ ApproveUpdate(s)
  \/ StatusUpdate(s)
  \/ \E r \in Reqs : HandleMarkReturned(s, r)
  \/ ReturnSelect(s)
  \/ ReturnUpdate(s)
  \/ ReturnItem(s)
  \/ ReturnRequest(s)

\* The steps of the ComponentsManager session.
Inventory ==
  \/ CmMount
  \/ CmFetchComponents
  \/ OpenAddDialog
  \/ \E c \in Comps : OpenEditDialog(c)
  \/ CancelComponentDialog
  \/ CloseComponentDialog
  \/ HandleSaveEdit
  \/ HandleSaveCreate
  \/ \E c \in Comps : HandleDelete(c)

\* The steps of the LabRequestForm session.
Member ==
  \/ FormMount
  \/ FormFetchComponents
  \/ \E c \in Comps : HandleAddComponent(c)
  \/ \E c \in Comps : HandleRemoveComponent(c)
  \/ \E c \in Comps, v \in TypedQuantities : HandleQuantityChange(c, v)
  \/ SubmitRequest
  \/ SubmitItems

Next ==
  \/ Inventory
  \/ Member
  \/ LabAccessHandleSubmit(MemberUser)

\* The system from empty tables: an admin managing the components and a member
\* submitting requests from the request form and from the LabAccess page, on a
\* backend that answers every call or on one whose calls may return an error.
Spec == Init /\ [][Next]_vars

\* ------------------------------------------------------------------ review workflow

\* Tables as createComponent and createRequest leave them: every component in
\* full stock, every request pending with one item per component it names, each
\* quantity within the stock listed when it was submitted. The LabAccessManager
\* sessions have just been mounted.
InitSubmitted ==
  /\ \E t \in [Comps -> 1..MaxTotal] :
       lab_components = [c \in Comps |->
         [exists |-> TRUE, total_quantity |-> t[c], available_quantity |-> t[c]]]
  /\ compsCreated = NumComps
  /\ lab_access_requests = [r \in Reqs |->
       [exists |-> TRUE, user_id |-> MemberUser, created_at |-> r,
        status |-> "pending", items_returned |-> FALSE, reviewed_by |-> 0]]
  /\ \E q \in [Reqs -> [Comps -> 1..MaxQty]] :
       /\ \A r \in Reqs, c \in Comps : q[r][c] <= lab_components[c].total_quantity
       /\ lab_request_items = [r \in Reqs |->
            [c \in Comps |-> [id |-> c, component_id |-> c, quantity |-> q[r][c],
                              is_returned |-> FALSE]]]
  /\ created = [r \in Reqs |-> ListedItems(lab_request_items[r])]
  /\ requests = [s \in Sessions |-> [r \in Reqs |-> NotListed]]
  /\ selectedRequest = [s \in Sessions |-> NoSelection]
  /\ processing = [s \in Sessions |-> FALSE]
  /\ pc = [s \in Sessions |-> "idle"]
  /\ op = [s \in Sessions |-> IdleOp]
  /\ fetching = [s \in Sessions |-> TRUE]
  /\ cm = CmMounted
  /\ form = FormMounted
  /\ InitRead
  /\ call = [s \in Sessions |-> NoCall]
  /\ epoch = NoEpoch
  /\ trip = NoTrip

\* The submitted requests on a backend that answers every call.
InitReview == InitSubmitted /\ backendFaults = FALSE

\* The submitted requests on a backend whose calls may return an error.
InitFaults == InitSubmitted /\ backendFaults = TRUE

ReviewNext == Review(1)

\* One admin reviewing the submitted requests, one call after the other.
SpecReview == InitReview /\ [][ReviewNext]_vars

\* One admin reviewing the submitted requests while backend calls may fail.
SpecFaults == InitFaults /\ [][ReviewNext]_vars

\* The steps of the LabAccessManager session s that lead to an approval.
Approving(s) ==
  \/ FetchRequests(s)
  \/ \E r \in Reqs : SetSelectedRequest(s, r)
  \/ CloseDialog(s)
  \/ HandleAction(s, "approved")
  \/ ApproveSelect(s)
  \/ ApproveUpdate(s)
  \/ StatusUpdate(s)

AdminsNext == \E s \in Sessions : Approving(s)

\* Several admins approving the submitted requests at the same time.
SpecAdmins == InitReview /\ [][AdminsNext]_vars

\* The steps of the ComponentsManager session that edit listed components.
Editing ==
  \/ CmFetchComponents
  \/ \E c \in Comps : OpenEditDialog(c)
  \/ CloseComponentDialog
  \/ HandleSaveEdit

\* Tables with one request lent out: request 1 approved by session 1 and not
\* returned, with one item per component, every component's available_quantity
\* reduced by the item's quantity.
InitLent ==
  /\ \E t \in 1..MaxTotal, q \in 1..MaxQty :
       /\ q <= t
       /\ lab_components = [c \in Comps |->
            [exists |-> TRUE, total_quantity |-> t,
             available_quantity |-> ApprovedQuantity(t, q)]]
       /\ lab_request_items = [r \in Reqs |->
            IF r = 1
            THEN [c \in Comps |-> [id |-> c, component_id |-> c, quantity |-> q,
                                   is_returned |-> FALSE]]
            ELSE <<>>]
  /\ compsCreated = NumComps
  /\ lab_access_requests = [r \in Reqs |->
       IF r = 1
       THEN [exists |-> TRUE, user_id |-> MemberUser, created_at |-> r,
             status |-> "approved", items_returned |-> FALSE, reviewed_by |-> 1]
       ELSE NoRequestRow]
  /\ created = [r \in Reqs |-> ListedItems(lab_request_items[r])]
  /\ backendFaults = FALSE
  /\ requests = [s \in Sessions |-> [r \in Reqs |-> NotListed]]
  /\ selectedRequest = [s \in Sessions |-> NoSelection]
  /\ processing = [s \in Sessions |-> FALSE]
  /\ pc = [s \in Sessions |-> "idle"]
  /\ op = [s \in Sessions |-> IdleOp]
  /\ fetching = [s \in Sessions |-> TRUE]
  /\ cm = CmMounted
  /\ form = FormMounted
  /\ InitRead
  /\ call = [s \in Sessions |-> NoCall]
  /\ epoch = NoEpoch
  /\ trip = NoTrip

\* The steps of the LabAccessManager session s that take a lent request back.
Returning(s) ==
  \/ FetchRequests(s)
  \/ \E r \in Reqs : HandleMarkReturned(s, r)
  \/ ReturnSelect(s)
  \/ ReturnUpdate(s)
  \/ ReturnItem(s)
  \/ ReturnRequest(s)

StockNext == Returning(1) \/ Editing

\* One admin marking a lent request returned while the components are edited.
SpecStock == InitLent /\ [][StockNext]_vars

\* The steps of the ComponentsManager session that delete listed components.
Deleting ==
  \/ CmFetchComponents
  \/ \E c \in Comps : HandleDelete(c)

DeleteNext == Returning(1) \/ Deleting \/ Member

\* One admin marking a lent request returned and a member submitting requests
\* while components are deleted.
SpecDelete == InitLent /\ [][DeleteNext]_vars

\* Tables as createComponent leaves them, before any request: every component
\* in full stock.
InitStocked ==
  /\ \E t \in [Comps -> 1..MaxTotal] :
       lab_components = [c \in Comps |->
         [exists |-> TRUE, total_quantity |-> t[c], available_quantity |-> t[c]]]
  /\ compsCreated = NumComps
  /\ lab_access_requests = [r \in Reqs |-> NoRequestRow]
  /\ lab_request_items = [r \in Reqs |-> <<>>]
  /\ backendFaults \in BOOLEAN
  /\ requests = [s \in Sessions |-> [r \in Reqs |-> NotListed]]
  /\ selectedRequest = [s \in Sessions |-> NoSelection]
  /\ processing = [s \in Sessions |-> FALSE]
  /\ pc = [s \in Sessions |-> "idle"]
  /\ op = [s \in Sessions |-> IdleOp]
  /\ fetching = [s \in Sessions |-> TRUE]
  /\ cm = CmMounted
  /\ form = FormMounted
  /\ InitRead
  /\ call = [s \in Sessions |-> NoCall]
  /\ epoch = NoEpoch
  /\ created = [r \in Reqs |-> <<>>]
  /\ trip = NoTrip

MemberNext == Member

\* A member submitting requests from the request form while nobody touches the
\* components.
SpecMember == InitStocked /\ [][MemberNext]_vars

\* The steps that resume a handler of session s after an awaited backend call.
Resume(s) ==
  \/ ApproveSelect(s)
  \/ ApproveUpdate(s)
  \/ StatusUpdate(s)
  \/ ReturnSelect(s)
  \/ ReturnUpdate(s)
  \/ ReturnItem(s)
  \/ ReturnRequest(s)

\* The steps of the LabRequestForm session that lead to a submission.
Submitting ==
  \/ FormFetchComponents
  \/ \E c \in Comps : HandleAddComponent(c)
  \/ SubmitRequest
  \/ SubmitItems

LiveNext == Review(1) \/ Submitting

\* The stocked components on a backend whose calls may return an error.
InitLive == InitStocked /\ backendFaults = TRUE

\* A member submitting requests and one admin reviewing them, on a backend whose
\* calls may return an error. Every awaited backend call comes back, with its
\* result or with an error, and the handler that awaits it then runs on: a
\* handler in flight is not left waiting forever.
SpecLive ==
  /\ InitLive
  /\ [][LiveNext]_vars
  /\ WF_vars(Resume(1))
  /\ WF_vars(SubmitItems)

\* Tables with requests of several users: each request there is belongs to some
\* user, the requests were made in some order, each has one item per component,
\* and any of the users may be an admin.
InitOwned ==
  /\ \E t \in [Comps -> 1..MaxTotal] :
       lab_components = [c \in Comps |->
         [exists |-> TRUE, total_quantity |-> t[c], available_quantity |-> t[c]]]
  /\ compsCreated = NumComps
  /\ \E n \in 0..MaxReqs, owner \in [Reqs -> Sessions], at \in [Reqs -> Reqs] :
       /\ \A r1, r2 \in Reqs : at[r1] = at[r2] => r1 = r2
       /\ \A r \in 1..n : at[r] <= n
       /\ \A r \in (n + 1)..MaxReqs : at[r] = r
       /\ lab_access_requests = [r \in Reqs |->
            IF r <= n
            THEN [exists |-> TRUE, user_id |-> owner[r], created_at |-> at[r],
                  status |-> "pending", items_returned |-> FALSE, reviewed_by |-> 0]
            ELSE NoRequestRow]
       /\ lab_request_items = [r \in Reqs |->
            IF r <= n
            THEN [c \in Comps |-> [id |-> c, component_id |-> c, quantity |-> 1,
                                   is_returned |-> FALSE]]
            ELSE <<>>]
  /\ created = [r \in Reqs |-> ListedItems(lab_request_items[r])]
  /\ user_roles \in SUBSET Sessions
  /\ requestsOrder = [s \in Sessions |-> <<>>]
  /\ myRequests = [u \in Sessions |-> MyRequestsMounted]
  /\ backendFaults = FALSE
  /\ requests = [s \in Sessions |-> [r \in Reqs |-> NotListed]]
  /\ selectedRequest = [s \in Sessions |-> NoSelection]
  /\ processing = [s \in Sessions |-> FALSE]
  /\ pc = [s \in Sessions |-> "idle"]
  /\ op = [s \in Sessions |-> IdleOp]
  /\ fetching = [s \in Sessions |-> TRUE]
  /\ cm = CmMounted
  /\ form = FormMounted
  /\ call = [s \in Sessions |-> NoCall]
  /\ epoch = NoEpoch
  /\ trip = NoTrip

\* The steps that read the requests, and the LabAccess page that adds to them.
ReadNext ==
  \E u \in Sessions :
    \/ MyRequestsMount(u)
    \/ MyRequestsFetch(u)
    \/ FetchRequests(u)
    \/ LabAccessHandleSubmit(u)

\* Users reading the requests, through MyRequests and through LabAccessManager,
\* while requests are added.
SpecRead == InitOwned /\ [][ReadNext]_vars

\* ------------------------------------------------------------------ properties

Available(c) == lab_components[c].available_quantity
Total(c) == lab_components[c].total_quantity
Status(r) == lab_access_requests[r].status
StatusAfter(r) == lab_access_requests'[r].status

\* The step is one of session s's handler.
StepOf(s) == pc'[s] # pc[s]

\* Session s has made every write to lab_components its running call makes.
WritesDone(s) ==
  \/ pc[s] = "status_update" /\ op[s].action = "approved"
  \/ pc[s] = "return_request"

RECURSIVE AfterCall(_, _, _, _, _)
\* available_quantity of component c after a call of the given action on the
\* given items, run alone from available_quantity a.
AfterCall(a, total, action, items, c) ==
  IF items = <<>> THEN a
  ELSE AfterCall(
         IF Head(items).component_id # c THEN a
         ELSE IF action = "approved" THEN ApprovedQuantity(a, Head(items).quantity)
         ELSE ReturnedQuantity(total, a, Head(items).quantity),
         total, action, Tail(items), c)

\* C1: every component has 0 <= available_quantity <= total_quantity.
C1_StockWithinTotal ==
  \A c \in Comps :
    lab_components[c].exists => 0 <= Available(c) /\ Available(c) <= Total(c)

\* C2: with available_quantity = 2 and two concurrent approve calls on different
\* pending requests of quantity 2 each, the call that ends second, after the
\* other has approved its request, does not approve its own.
C2_NoDoubleReservation ==
  [][\A s \in Sessions, c \in Comps :
       ( /\ pc[s] = "status_update" /\ StepOf(s)
         /\ op[s].action = "approved"
         /\ call[s].status0 = "pending"
         /\ epoch.n = 2 /\ ~epoch.dirty
         /\ epoch.base[c] = 2
         /\ SumQty(op[s].items, c) = 2
         /\ \E r \in epoch.approved :
               r # op[s].id /\ SumQty(lab_request_items[r], c) = 2 )
       => StatusAfter(op[s].id) # "approved"]_vars

\* C3: when two overlapping approve or markReturned calls on different requests
\* have made all their writes, every available_quantity is what the two calls
\* give when run one after the other, in one of the two orders, from the stock
\* they started on.
C3_Linearizable ==
  \A s1 \in Sessions, s2 \in Sessions, c \in Comps :
    ( /\ s1 # s2 /\ op[s1].id # op[s2].id
      /\ WritesDone(s1) /\ WritesDone(s2) /\ epoch.n = 2 /\ ~epoch.dirty )
    => Available(c) \in
         { AfterCall(AfterCall(epoch.base[c], Total(c), op[s1].action,
                               op[s1].items, c),
                     Total(c), op[s2].action, op[s2].items, c),
           AfterCall(AfterCall(epoch.base[c], Total(c), op[s2].action,
                               op[s2].items, c),
                     Total(c), op[s1].action, op[s1].items, c) }

\* C4: an approve call on a pending request that reads, for one of its items,
\* an available_quantity below the item's quantity changes no
\* available_quantity and leaves the request pending.
C4_ApproveRechecksStock ==
  [][\A s \in Sessions :
       ( /\ op[s].action = "approved" /\ call[s].status0 = "pending"
         /\ call[s].short /\ StepOf(s) )
       => /\ lab_components' = lab_components
          /\ StatusAfter(op[s].id) = Status(op[s].id)]_vars

\* C5: an approve or reject call started on a request whose stored status is not
\* pending changes neither lab_components nor lab_access_requests.
C5_TerminalStatesIdempotent ==
  [][\A s \in Sessions :
       ( /\ op[s].action \in {"approved", "rejected"}
         /\ call[s].status0 # "pending"
         /\ StepOf(s) )
       => /\ lab_components' = lab_components
          /\ lab_access_requests' = lab_access_requests]_vars

\* C6: an approved or rejected request keeps its status in every step.
C6_StatusOneWay ==
  [][\A r \in Reqs :
       Status(r) \in {"approved", "rejected"} => StatusAfter(r) = Status(r)]_vars

\* C7: a request with items_returned = true has status approved.
C7_ReturnedOnlyWhenApproved ==
  \A r \in Reqs :
    (lab_access_requests[r].exists /\ lab_access_requests[r].items_returned)
    => Status(r) = "approved"

\* C8: a markReturned call started on a request whose stored status is not
\* approved, or whose items_returned is already true, changes no table.
C8_ReturnedAtMostOnce ==
  [][\A s \in Sessions :
       ( /\ op[s].action = "returned"
         /\ (call[s].status0 # "approved" \/ call[s].returned0)
         /\ StepOf(s) )
       => /\ lab_components' = lab_components
          /\ lab_access_requests' = lab_access_requests
          /\ lab_request_items' = lab_request_items]_vars

\* The running call of session s was started on a request in the stored state
\* its operation asks for: pending for approve, approved and not returned for
\* markReturned.
CallInOrder(s) ==
  IF op[s].action = "returned"
  THEN call[s].status0 = "approved" /\ ~call[s].returned0
  ELSE call[s].status0 = "pending"

\* C9: an approve call on a pending request, or a markReturned call on an
\* approved request not yet returned, that ran alone has, once its writes are
\* made, moved every available_quantity by exactly its item quantities: down
\* for approve, up for markReturned.
C9_Conservation ==
  \A s \in Sessions, c \in Comps :
    (WritesDone(s) /\ CallInOrder(s) /\ epoch.n = 1 /\ ~epoch.dirty)
    => Available(c) =
         epoch.base[c] + (IF op[s].action = "approved" THEN 0 - 1 ELSE 1)
                         * SumQty(op[s].items, c)

\* C10: every stored request has all the items it was submitted with (but for
\* those whose component has been deleted since).
C10_AtomicCreation ==
  \A r \in Reqs :
    lab_access_requests[r].exists
    => \A k \in 1..Len(created[r]) :
         lab_components[created[r][k].component_id].exists
         => \E j \in 1..Len(lab_request_items[r]) :
              lab_request_items[r][j].id = created[r][k].id

\* C11: when a lone approve call on a pending request ends without the request
\* approved (its status update failed), every available_quantity is what it
\* was when the call began.
C11_ApproveAllOrNothing ==
  [][\A s \in Sessions :
       ( /\ pc[s] = "status_update" /\ StepOf(s)
         /\ op[s].action = "approved" /\ call[s].status0 = "pending"
         /\ epoch.n = 1 /\ ~epoch.dirty
         /\ StatusAfter(op[s].id) # "approved" )
       => \A c \in Comps : Available(c) = epoch.base[c]]_vars

\* C12: no request has an item with is_returned = true while its own
\* items_returned is false.
C12_ReturnAllOrNothing ==
  \A r \in Reqs :
    (\E k \in 1..Len(lab_request_items[r]) : lab_request_items[r][k].is_returned)
    => lab_access_requests[r].items_returned

\* A step of handleSubmit of the request form.
SubmitStep == form'.stage # form.stage

\* C13: a step of createRequest changes no component's available_quantity or
\* total_quantity, and the request it stores is pending.
C13_CreateLeavesStock ==
  [][SubmitStep
     => /\ lab_components' = lab_components
        /\ \A r \in Reqs :
             (~lab_access_requests[r].exists /\ lab_access_requests'[r].exists)
             => StatusAfter(r) = "pending"]_vars

\* A request of quantity MaxQty is stored with its item, pending, and the
\* component still has all MaxTotal units available.
C13_Witness ==
  \E r \in Reqs, c \in Comps :
    /\ lab_access_requests[r].exists /\ Status(r) = "pending"
    /\ SumQty(lab_request_items[r], c) = MaxQty
    /\ lab_components[c].exists
    /\ Total(c) = MaxTotal /\ Available(c) = MaxTotal

\* C14: every step of a reject call on a pending request leaves lab_components
\* as it is, and its status update stores status = rejected and the reviewer.
C14_RejectLeavesStock ==
  [][\A s \in Sessions :
       (op[s].action = "rejected" /\ call[s].status0 = "pending" /\ StepOf(s))
       => /\ lab_components' = lab_components
          /\ pc[s] = "status_update"
             => /\ StatusAfter(op[s].id) = "rejected"
                /\ lab_access_requests'[op[s].id].reviewed_by = s]_vars

\* A request of quantity MaxQty has been rejected, nothing else reviewed, and
\* the component still has all MaxTotal units available.
C14_Witness ==
  \E r \in Reqs, c \in Comps :
    /\ Status(r) = "rejected" /\ lab_access_requests[r].reviewed_by = 1
    /\ \A q \in Reqs \ {r} : Status(q) = "pending"
    /\ SumQty(lab_request_items[r], c) = MaxQty
    /\ Total(c) = MaxTotal /\ Available(c) = MaxTotal
    /\ Quiescent

\* C15: an approve call on a pending request whose item quantities the stock
\* covers takes exactly those quantities from every component and leaves the
\* request approved; the markReturned call on that request that follows it,
\* with no other operation in between, ends with every available_quantity at
\* its value before the approve, status = approved and items_returned = true.
C15_RoundTrip ==
  [][\A s \in Sessions, c \in Comps :
       /\ ( /\ pc[s] = "status_update" /\ StepOf(s)
            /\ trip'.id # 0 /\ trip'.id = op[s].id )
          => /\ Available(c) = trip'.base[c] - SumQty(op[s].items, c)
             /\ StatusAfter(op[s].id) = "approved"
       /\ ( /\ pc[s] = "return_request" /\ StepOf(s)
            /\ trip.id # 0 /\ trip.id = op[s].id )
          => /\ Available(c) = trip.base[c]
             /\ StatusAfter(op[s].id) = "approved"
             /\ lab_access_requests'[op[s].id].items_returned]_vars

\* A request of quantity MaxQty was approved on a stock of MaxTotal and is being
\* returned: the stock is MaxTotal again.
C15_Witness ==
  \E s \in Sessions, c \in Comps :
    /\ pc[s] = "return_request"
    /\ trip.id # 0 /\ trip.id = op[s].id
    /\ SumQty(op[s].items, c) = MaxQty
    /\ trip.base[c] = MaxTotal /\ Available(c) = MaxTotal

\* C16: the update of a markReturned call that runs alone, with no edit since
\* it began, sets the component's available_quantity to the smaller of its
\* stored total_quantity and its stored available_quantity plus the item's
\* quantity.
C16_OverReturnGuard ==
  [][\A s \in Sessions :
       (pc[s] = "return_update" /\ StepOf(s) /\ epoch.n = 1 /\ ~epoch.dirty)
       => LET item == op[s].items[op[s].i]
              c == item.component_id
          IN lab_components'[c].available_quantity =
               Min(Total(c), Available(c) + item.quantity)]_vars

\* A request of quantity MaxQty is being returned after total_quantity was
\* lowered below MaxQty: the stock started at 0 and is now total_quantity, not
\* MaxQty.
C16_Witness ==
  \E s \in Sessions, c \in Comps :
    /\ pc[s] = "return_item" /\ epoch.n = 1 /\ ~epoch.dirty
    /\ call[s].status0 = "approved" /\ ~call[s].returned0
    /\ op[s].items[op[s].i].component_id = c
    /\ op[s].items[op[s].i].quantity = MaxQty
    /\ epoch.base[c] = 0
    /\ Total(c) = MaxQty - 1 /\ Available(c) = MaxQty - 1

\* The step is a save of the edit dialog of component c that changes the table.
EditStep(c) ==
  /\ cm.dialogOpen /\ cm.editingComponent.id = c
  /\ cm'.editingComponent.id = 0
  /\ lab_components' # lab_components

\* C17: a save of the edit dialog that takes total_quantity from one value that
\* is not negative to another sets the component's available_quantity to its
\* stored available_quantity plus the change of total_quantity, kept within 0
\* and the new total_quantity.
C17_EditKeepsStock ==
  [][\A c \in Comps :
       (EditStep(c) /\ Total(c) >= 0 /\ lab_components'[c].total_quantity >= 0)
       => lab_components'[c].available_quantity =
            Max(0, Min(lab_components'[c].total_quantity,
                       Available(c) + (lab_components'[c].total_quantity - Total(c))))]_vars

\* C18: no stored component has a negative total_quantity.
C18_TotalNotNegative ==
  \A c \in Comps : lab_components[c].exists => Total(c) >= 0

\* C19: when handleSubmit stores a request, every selected item has a quantity
\* of at least 1 and, its component being stored with a total_quantity that is
\* not negative, at most the component's stored available_quantity.
C19_SubmitChecksStock ==
  [][(form.stage = "idle" /\ form'.stage = "items")
     => \A k \in 1..Len(form.selectedComponents) :
          LET sc == form.selectedComponents[k]
          IN /\ sc.quantity >= 1
             /\ (lab_components[sc.component_id].exists
                 /\ Total(sc.component_id) >= 0)
                => sc.quantity <= Available(sc.component_id)]_vars

\* C20: every stored request was submitted with at least one item.
C20_NoEmptyRequest ==
  \A r \in Reqs : lab_access_requests[r].exists => created[r] # <<>>

\* C21: a step of the request form that stores a request was given a return
\* date that is not before today.
C21_PastDateRejected ==
  [][\A r \in Reqs :
       (~lab_access_requests[r].exists /\ lab_access_requests'[r].exists
        /\ form'.requestId = r)
       => form'.returnDate[1] >= 0]_vars

\* C22: reviewed_by is unset while a request is pending and, once set, is never
\* written again.
C22_ReviewedOnce ==
  [][\A r \in Reqs :
       /\ Status(r) = "pending" => lab_access_requests[r].reviewed_by = 0
       /\ lab_access_requests[r].reviewed_by # 0
          => lab_access_requests'[r].reviewed_by = lab_access_requests[r].reviewed_by]_vars

\* A request that holds or may come to hold stock: pending, or approved and not
\* returned.
Open(r) ==
  /\ lab_access_requests[r].exists
  /\ \/ Status(r) = "pending"
     \/ Status(r) = "approved" /\ ~lab_access_requests[r].items_returned

RECURSIVE OpenQuantity(_, _)
\* The quantity of component c requested by the open requests 1..r.
OpenQuantity(r, c) ==
  IF r = 0 THEN 0
  ELSE (IF Open(r) THEN SumQty(lab_request_items[r], c) ELSE 0)
       + OpenQuantity(r - 1, c)

\* C23: the open requests together ask for no more of a component than its
\* total_quantity.
C23_OpenWithinTotal ==
  \A c \in Comps :
    lab_components[c].exists => OpenQuantity(MaxReqs, c) <= Total(c)

\* The handleMarkReturned call of session s is at an item whose component is gone.
AtDeleted(s) ==
  /\ pc[s] \in {"return_select", "return_update", "return_item"}
  /\ ~lab_components[op[s].items[op[s].i].component_id].exists

\* C25: every stored item references an existing component, a delete removes no
\* request, and a step of handleMarkReturned at an item whose component has
\* been deleted changes no available_quantity.
C25_DeleteCascades ==
  /\ [](\A r \in Reqs : \A k \in 1..Len(lab_request_items[r]) :
          lab_components[lab_request_items[r][k].component_id].exists)
  /\ [][/\ \A r \in Reqs :
            lab_access_requests[r].exists => lab_access_requests'[r].exists
        /\ \A s \in Sessions :
            (AtDeleted(s) /\ StepOf(s)) => lab_components' = lab_components]_vars

\* A handleMarkReturned call that began after the component of its item was
\* deleted has looked for the component and gone on to the item.
C25_Witness ==
  /\ pc[1] = "return_item"
  /\ ~lab_components[op[1].items[op[1].i].component_id].exists
  /\ ~epoch.dirty
  /\ lab_access_requests[op[1].id].exists

RECURSIVE LentQuantity(_, _)
\* The quantity of component c in the requests 1..r that are approved and not
\* returned.
LentQuantity(r, c) ==
  IF r = 0 THEN 0
  ELSE (IF Status(r) = "approved" /\ ~lab_access_requests[r].items_returned
        THEN SumQty(lab_request_items[r], c) ELSE 0)
       + LentQuantity(r - 1, c)

\* C26: between the calls of one admin, with no component edited or deleted,
\* available_quantity plus the quantity lent out is total_quantity.
C26_Bookkeeping ==
  Quiescent
  => \A c \in Comps : Available(c) + LentQuantity(MaxReqs, c) = Total(c)

\* Session s starts a handler call with this step.
CallStarts(s) == pc[s] = "idle" /\ pc'[s] # "idle"

\* C27: with one admin session, no review call starts on a request that is
\* stored as approved, and no markReturned call on one stored as returned.
C27_OfferedOnce ==
  [][\A s \in Sessions :
       CallStarts(s)
       => /\ op'[s].action \in {"approved", "rejected"}
             => Status(op'[s].id) # "approved"
          /\ op'[s].action = "returned"
             => ~lab_access_requests[op'[s].id].items_returned]_vars

\* The step enters handleAction or handleMarkReturned in session s.
Entered(s) ==
  /\ processing'[s]
  /\ op'[s].action # op[s].action \/ op'[s].id # op[s].id

\* C28: a session enters a handler only while its processing flag is false and
\* no handler call of its own is in flight, and the flag is true for as long
\* as the call runs.
C28_OneAtATime ==
  /\ [](\A s \in Sessions : Busy(s) <=> processing[s])
  /\ [][\A s \in Sessions : Entered(s) => ~processing[s] /\ ~Busy(s)]_vars

\* While a call of session 1 runs, the admin has closed the review dialog and
\* has a request listed with a Return button.
C28_Witness ==
  /\ processing[1]
  /\ pc[1] \in {"approve_select", "approve_update", "status_update"}
  /\ selectedRequest[1].id = 0
  /\ \E r \in Reqs :
       /\ r # op[1].id
       /\ requests[1][r].present
       /\ requests[1][r].status = "approved"
       /\ ~requests[1][r].items_returned

\* C29: a session whose processing flag is set gets it cleared, and a request
\* form that is submitting gets back to idle, whatever the backend calls return.
C29_LockReleased ==
  /\ \A s \in Sessions : processing[s] ~> ~processing[s]
  /\ (form.stage = "items") ~> (form.stage = "idle")

\* Both surfaces are usable again after failed calls: an approve call whose
\* status update failed has taken stock and left its request pending, and a
\* submission whose item insert failed has left a request without its items.
C29_Witness ==
  /\ Quiescent
  /\ ~processing[1]
  /\ form.stage = "idle"
  /\ \A r \in Reqs : lab_access_requests[r].exists => Status(r) = "pending"
  /\ \E c \in Comps : Available(c) < Total(c)
  /\ \E r \in Reqs :
       /\ lab_access_requests[r].exists
       /\ created[r] # <<>>
       /\ lab_request_items[r] = <<>>

\* C30: the item rows a submission of the request form stores name each
\* component at most once, only components the form listed with an
\* available_quantity of at least 1, and a quantity from 1 to that listed
\* available_quantity.
C30_ItemsWithinListed ==
  [][\A r \in Reqs :
       (form.stage = "items" /\ form.requestId = r
        /\ lab_request_items'[r] # lab_request_items[r])
       => LET rows == lab_request_items'[r]
          IN \A k \in 1..Len(rows) :
               /\ form.components[rows[k].component_id] >= 1
               /\ 1 <= rows[k].quantity
               /\ rows[k].quantity <= form.components[rows[k].component_id]
               /\ \A j \in 1..Len(rows) :
                    rows[j].component_id = rows[k].component_id => j = k]_vars

\* A submission has stored an item with the largest quantity, after which the
\* component's available_quantity is still what the form listed.
C30_Witness ==
  /\ form.stage = "idle"
  /\ \E r \in Reqs :
       /\ Len(lab_request_items[r]) = NumComps
       /\ \A k \in 1..Len(lab_request_items[r]) :
            /\ lab_request_items[r][k].quantity = MaxQty
            /\ form.components[lab_request_items[r][k].component_id] = MaxQty

\* The ids of a list are in the order of created_at, newest first.
NewestFirst(ids) ==
  \A j, k \in 1..Len(ids) :
    j < k => lab_access_requests[ids[j]].created_at
               >= lab_access_requests[ids[k]].created_at

\* C24: the list MyRequests fetches for a user holds exactly the requests of
\* that user, each with its own items; the list an admin's LabAccessManager
\* fetches holds every request; both are ordered by created_at, newest first.
C24_OwnershipRead ==
  [][/\ \A u \in Sessions :
          (myRequests[u].loading /\ ~myRequests'[u].loading)
          => LET rows == myRequests'[u].rows
             IN /\ {rows[k].id : k \in 1..Len(rows)}
                     = {r \in Reqs : lab_access_requests[r].exists
                                      /\ lab_access_requests[r].user_id = u}
                /\ \A j, k \in 1..Len(rows) : rows[j].id = rows[k].id => j = k
                /\ \A k \in 1..Len(rows) :
                     /\ rows[k].user_id = u
                     /\ rows[k].items = lab_request_items[rows[k].id]
                /\ NewestFirst([k \in 1..Len(rows) |-> rows[k].id])
      /\ \A s \in Sessions :
          (fetching[s] /\ ~fetching'[s] /\ HasRole(s))
          => /\ \A r \in Reqs :
                  requests'[s][r].present <=> lab_access_requests[r].exists
             /\ {requestsOrder'[s][k] : k \in 1..Len(requestsOrder'[s])}
                  = {r \in Reqs : lab_access_requests[r].exists}
             /\ Len(requestsOrder'[s]) = Cardinality(ExistingRequests)
             /\ NewestFirst(requestsOrder'[s])]_vars

\* A user who is no admin has fetched a list with one request while another
\* user's request is stored, and an admin has fetched both, the later one
\* first although its id is the smaller.
C24_Witness ==
  \E u, s \in Sessions :
    /\ ~HasRole(u)
    /\ HasRole(s)
    /\ Len(myRequests[u].rows) = 1
    /\ \E r \in Reqs :
         lab_access_requests[r].exists /\ lab_access_requests[r].user_id # u
    /\ requestsOrder[s] = <<1, 2>>
    /\ lab_access_requests[1].created_at > lab_access_requests[2].created_at

====
